---- MODULE Spec2Model ----
(***************************************************************************)
(* Model of src/app.py: the ExpenseManager (an in-memory list of expense   *)
(* records mirrored to expenses.json) and the menu loop of main().         *)
(*                                                                         *)
(* Text that the program inspects (dates, categories, numeric answers to   *)
(* prompts) is a sequence of one-character strings, so that int(), the     *)
(* f-string formatting, str.startswith and str.lower are computed.         *)
(* Amounts are whole numbers (the answers drawn for the amount prompts     *)
(* are digit strings).  None is <<>> and a supplied argument v is <<v>>.   *)
(***************************************************************************)
EXTENDS Integers, Sequences, FiniteSets, TLC

VARIABLES pc, expenses, disk, call, out, ioLog, fault, prev, onlyAdds

vars == <<pc, expenses, disk, call, out, ioLog, fault, prev, onlyAdds>>

\* Largest number of records the in-memory list may hold.
MaxLen == 3

-----------------------------------------------------------------------------
(* Text helpers *)

Digits == <<"0", "1", "2", "3", "4", "5", "6", "7", "8", "9">>

UpperCase == <<"A", "B", "C", "D", "E", "F", "G", "H", "I", "J", "K", "L", "M",
               "N", "O", "P", "Q", "R", "S", "T", "U", "V", "W", "X", "Y", "Z">>

LowerCase == <<"a", "b", "c", "d", "e", "f", "g", "h", "i", "j", "k", "l", "m",
               "n", "o", "p", "q", "r", "s", "t", "u", "v", "w", "x", "y", "z">>

IsDigit(c) == \E i \in 1..10 : Digits[i] = c

DigitVal(c) == (CHOOSE i \in 1..10 : Digits[i] = c) - 1

\* int(text) / float(text) succeed on the answers drawn here exactly when text
\* is a non-empty string of decimal digits; otherwise they raise ValueError.
Parses(s) == Len(s) > 0 /\ \A i \in 1..Len(s) : IsDigit(s[i])

RECURSIVE IntOf(_)
IntOf(s) ==
    IF Len(s) = 0 THEN 0
    ELSE 10 * IntOf(SubSeq(s, 1, Len(s) - 1)) + DigitVal(s[Len(s)])

\* f"{n}" for n >= 0
RECURSIVE StrOf(_)
StrOf(n) ==
    IF n < 10 THEN <<Digits[n + 1]>>
    ELSE StrOf(n \div 10) \o <<Digits[(n % 10) + 1]>>

Pad2_Unpadded(n) == StrOf(n)

\* f"{n:02d}" for n >= 0
Pad2(n) == IF Len(StrOf(n)) < 2 THEN <<"0">> \o StrOf(n) ELSE StrOf(n)

\* f"{year}-{month:02d}"
MonthStr(month, year) == StrOf(year) \o <<"-">> \o Pad2(month)

\* s.startswith(p)
startswith(s, p) == Len(s) >= Len(p) /\ SubSeq(s, 1, Len(p)) = p

LowerChar(c) ==
    IF \E i \in 1..26 : UpperCase[i] = c
    THEN LowerCase[CHOOSE i \in 1..26 : UpperCase[i] = c]
    ELSE c

\* s.lower()
lower(s) == [i \in 1..Len(s) |-> LowerChar(s[i])]

-----------------------------------------------------------------------------
(* Values drawn for the prompts *)

Date_Jan15 == <<"2", "0", "2", "4", "-", "0", "1", "-", "1", "5">>
Date_Feb01 == <<"2", "0", "2", "4", "-", "0", "2", "-", "0", "1">>
Date_Jan31 == <<"2", "0", "2", "4", "-", "0", "1", "-", "3", "1">>

Cat_Food == <<"F", "o", "o", "d">>
Cat_home == <<"h", "o", "m", "e">>
Cat_Fun  == <<"F", "u", "n">>

BadNumber == <<"a", "b", "c">>
Blank == <<>>

\* Answers to the four prompts of choice 1, with the clock reading of that call.
AddInputs ==
    { [description |-> "Coffee", amount |-> <<"4", "5", "0">>,
       category |-> Cat_Food, date |-> Date_Jan15, now |-> "2024-03-01 09:00:00"],
      [description |-> "Rent", amount |-> <<"1", "0", "0", "0">>,
       category |-> Cat_home, date |-> Date_Feb01, now |-> "2024-03-02 18:30:00"],
      [description |-> "Lunch", amount |-> BadNumber,
       category |-> Cat_Food, date |-> Date_Jan15, now |-> "2024-03-01 09:00:00"] }

\* Answers to the four "new value" prompts of choice 3 (blank keeps current).
EditInputs ==
    { [description |-> "", amount |-> Blank, category |-> Blank, date |-> Blank],
      [description |-> "", amount |-> <<"7", "0", "0">>, category |-> Blank, date |-> Blank],
      [description |-> "", amount |-> <<"0">>, category |-> Blank, date |-> Blank],
      [description |-> "Tea", amount |-> <<"7", "0", "0">>, category |-> Cat_Fun, date |-> Date_Jan31],
      [description |-> "Tea", amount |-> BadNumber, category |-> Blank, date |-> Blank] }

IdInputs == {StrOf(i) : i \in 1..(MaxLen + 1)} \cup {BadNumber}

MonthInputs == {<<"1">>, <<"0", "2">>, <<"1", "2">>, BadNumber}

YearInputs == {<<"2", "0", "2", "4">>, BadNumber}

CategoryInputs == {<<"f", "o", "o", "d">>, <<"F", "U", "N">>}

OtherChoices == {"8"}

\* What the file system does to one open(EXPENSES_FILE, 'w') / json.dump: it
\* completes, or the write raises OSError after open() truncated the file (the
\* file is left holding a broken prefix of the JSON text).
IoOutcomes == {"ok", "write_fail"}

-----------------------------------------------------------------------------
(* The store file *)

AbsentFile  == [kind |-> "absent",  text |-> <<>>]
CorruptFile == [kind |-> "corrupt", text |-> <<>>]

\* json.dump(self.expenses, file, indent=4): the file then holds the list
dumps(exps) == [kind |-> "json", text |-> exps]

\* Contents expenses.json may have when the program starts.
InitialFiles ==
    { AbsentFile, CorruptFile, dumps(<<>>),
      dumps(<<[id |-> 1, description |-> "Coffee", amount |-> 450,
               category |-> Cat_Food, date |-> Date_Jan15,
               created_at |-> "2024-03-01 09:00:00"]>>) }

NoCall == [op |-> "none"]
NoOut  == [msg |-> "none"]

-----------------------------------------------------------------------------
(* ExpenseManager *)

NextId_MaxPlusOne(exps) ==
    IF exps = <<>> THEN 1
    ELSE (CHOOSE m \in {exps[i].id : i \in 1..Len(exps)} :
              \A j \in 1..Len(exps) : exps[j].id <= m) + 1

NextId_Len(exps) == Len(exps)

\* 'id': len(self.expenses) + 1
NextId(exps) == Len(exps) + 1

\* the dict literal of add_expense
NewExpense(exps, c) ==
    [id |-> NextId(exps), description |-> c.description, amount |-> c.amount,
     category |-> c.category, date |-> c.date, created_at |-> c.now]

\* with open(EXPENSES_FILE, 'w') as file: json.dump(self.expenses, file, indent=4)
\* The value is the file afterwards; the call raises unless io = "ok".
save_expenses(exps, io, file) ==
    CASE io = "ok"         -> dumps(exps)
      [] io = "write_fail" -> CorruptFile

RECURSIVE FirstMatchFrom_Geq(_, _, _)
FirstMatchFrom_Geq(exps, expense_id, i) ==
    IF i > Len(exps) THEN 0
    ELSE IF exps[i].id >= expense_id THEN i
    ELSE FirstMatchFrom_Geq(exps, expense_id, i + 1)

\* for expense in self.expenses: if expense['id'] == expense_id: ... return
\* The index of the record the loop stops at, 0 when it runs to the end.
RECURSIVE FirstMatchFrom(_, _, _)
FirstMatchFrom(exps, expense_id, i) ==
    IF i > Len(exps) THEN 0
    ELSE IF exps[i].id = expense_id THEN i
    ELSE FirstMatchFrom(exps, expense_id, i + 1)

\* Python truth of the optional arguments of edit_expense
TruthyText(arg) == arg # <<>> /\ arg[1] # ""
TruthyNumber(arg) == arg # <<>> /\ arg[1] # 0
TruthyChars(arg) == arg # <<>> /\ Len(arg[1]) > 0

Updated_ClearsAbsent(expense, c) ==
    [expense EXCEPT
        !.description = IF TruthyText(c.description) THEN c.description[1] ELSE "",
        !.amount      = IF TruthyNumber(c.amount) THEN c.amount[1] ELSE @,
        !.category    = IF TruthyChars(c.category) THEN c.category[1] ELSE @,
        !.date        = IF TruthyChars(c.date) THEN c.date[1] ELSE @]

\* the four "if field: expense[field] = field" statements of edit_expense
Updated(expense, c) ==
    [expense EXCEPT
        !.description = IF TruthyText(c.description) THEN c.description[1] ELSE @,
        !.amount      = IF TruthyNumber(c.amount) THEN c.amount[1] ELSE @,
        !.category    = IF TruthyChars(c.category) THEN c.category[1] ELSE @,
        !.date        = IF TruthyChars(c.date) THEN c.date[1] ELSE @]

RECURSIVE WithoutId_First(_, _)
WithoutId_First(exps, expense_id) ==
    IF exps = <<>> THEN <<>>
    ELSE IF Head(exps).id = expense_id THEN Tail(exps)
    ELSE <<Head(exps)>> \o WithoutId_First(Tail(exps), expense_id)

\* [expense for expense in self.expenses if expense['id'] != expense_id]
RECURSIVE WithoutId(_, _)
WithoutId(exps, expense_id) ==
    IF exps = <<>> THEN <<>>
    ELSE IF Head(exps).id # expense_id
         THEN <<Head(exps)>> \o WithoutId(Tail(exps), expense_id)
         ELSE WithoutId(Tail(exps), expense_id)

\* [expense for expense in self.expenses if expense['date'].startswith(month_str)]
RECURSIVE monthly_expenses(_, _)
monthly_expenses(exps, month_str) ==
    IF exps = <<>> THEN <<>>
    ELSE IF startswith(Head(exps).date, month_str)
         THEN <<Head(exps)>> \o monthly_expenses(Tail(exps), month_str)
         ELSE monthly_expenses(Tail(exps), month_str)

\* [expense for expense in self.expenses
\*  if expense['category'].lower() == category.lower()]
RECURSIVE category_expenses(_, _)
category_expenses(exps, category) ==
    IF exps = <<>> THEN <<>>
    ELSE IF lower(Head(exps).category) = lower(category)
         THEN <<Head(exps)>> \o category_expenses(Tail(exps), category)
         ELSE category_expenses(Tail(exps), category)

\* sum(expense['amount'] for expense in ...)
RECURSIVE total_amount(_)
total_amount(exps) ==
    IF exps = <<>> THEN 0 ELSE Head(exps).amount + total_amount(Tail(exps))

\* the line printed per record by the two reports
Lines(exps) ==
    [i \in 1..Len(exps) |->
        [description |-> exps[i].description, amount |-> exps[i].amount,
         date |-> exps[i].date]]

-----------------------------------------------------------------------------
Init ==
    /\ pc = "start"
    /\ expenses = <<>>
    /\ disk \in InitialFiles
    /\ call = NoCall
    /\ out = NoOut
    /\ ioLog = <<>>
    /\ fault = "none"
    /\ prev = <<>>
    /\ onlyAdds = TRUE

\* ExpenseManager() : __init__ and load_expenses.  json.load of a file that
\* does not hold JSON raises, and nothing between it and main() catches.
load_expenses ==
    /\ prev' = expenses
    /\ pc = "start"
    /\ call' = [op |-> "load"]
    /\ ioLog' = <<>>
    /\ UNCHANGED disk
    /\ CASE disk.kind = "json" ->
                /\ expenses' = disk.text
                /\ out' = NoOut
                /\ pc' = "returned"
                /\ fault' = "none"
         [] disk.kind = "absent" ->
                /\ expenses' = <<>>
                /\ out' = [msg |-> "no_file"]
                /\ pc' = "returned"
                /\ fault' = "none"
         [] disk.kind = "corrupt" ->
                /\ expenses' = <<>>
                /\ out' = [msg |-> "traceback"]
                /\ pc' = "crashed"
                /\ fault' = "load"
    /\ onlyAdds' = (expenses' = <<>>)

add_expense ==
    /\ prev' = expenses
    /\ pc = "call" /\ call.op = "add"
    /\ \E io \in IoOutcomes :
        /\ expenses' = Append(expenses, NewExpense(expenses, call))
        /\ disk' = save_expenses(expenses', io, disk)
        /\ ioLog' = <<io>>
        /\ out' = IF io = "ok"
                  THEN [msg |-> "added", description |-> call.description,
                        amount |-> call.amount, category |-> call.category,
                        date |-> call.date]
                  ELSE [msg |-> "failed_add"]
    /\ pc' = "returned"
    /\ UNCHANGED <<call, fault, onlyAdds>>

list_expenses ==
    /\ prev' = expenses
    /\ pc = "call" /\ call.op = "list"
    /\ out' = IF expenses = <<>> THEN [msg |-> "list_empty"]
              ELSE [msg |-> "list", items |-> expenses]
    /\ pc' = "returned"
    /\ UNCHANGED <<expenses, disk, call, ioLog, fault, onlyAdds>>

edit_expense ==
    /\ prev' = expenses
    /\ pc = "call" /\ call.op = "edit"
    /\ LET i == FirstMatchFrom(expenses, call.expense_id, 1) IN
         IF i = 0
         THEN /\ out' = [msg |-> "not_found", expense_id |-> call.expense_id]
              /\ UNCHANGED <<expenses, disk, ioLog>>
         ELSE \E io \in IoOutcomes :
              /\ expenses' = [expenses EXCEPT ![i] = Updated(@, call)]
              /\ disk' = save_expenses(expenses', io, disk)
              /\ ioLog' = <<io>>
              /\ out' = IF io = "ok"
                        THEN [msg |-> "updated", expense_id |-> call.expense_id]
                        ELSE [msg |-> "failed_edit"]
    /\ pc' = "returned"
    /\ onlyAdds' = FALSE
    /\ UNCHANGED <<call, fault>>

delete_expense ==
    /\ prev' = expenses
    /\ pc = "call" /\ call.op = "delete"
    /\ \E io \in IoOutcomes :
        /\ expenses' = WithoutId(expenses, call.expense_id)
        /\ disk' = save_expenses(expenses', io, disk)
        /\ ioLog' = <<io>>
        /\ out' = IF io = "ok"
                  THEN [msg |-> "deleted", expense_id |-> call.expense_id]
                  ELSE [msg |-> "failed_delete"]
    /\ pc' = "returned"
    /\ onlyAdds' = FALSE
    /\ UNCHANGED <<call, fault>>

monthly_report ==
    /\ prev' = expenses
    /\ pc = "call" /\ call.op = "monthly"
    /\ LET month_str == MonthStr(call.month, call.year)
           selected == monthly_expenses(expenses, month_str)
       IN out' = IF selected = <<>>
                 THEN [msg |-> "monthly_none", month_str |-> month_str]
                 ELSE [msg |-> "monthly", month_str |-> month_str,
                       total |-> total_amount(selected), items |-> Lines(selected)]
    /\ pc' = "returned"
    /\ UNCHANGED <<expenses, disk, call, ioLog, fault, onlyAdds>>

category_report ==
    /\ prev' = expenses
    /\ pc = "call" /\ call.op = "category"
    /\ LET selected == category_expenses(expenses, call.category)
       IN out' = IF selected = <<>>
                 THEN [msg |-> "category_none", category |-> call.category]
                 ELSE [msg |-> "category", category |-> call.category,
                       total |-> total_amount(selected), items |-> Lines(selected)]
    /\ pc' = "returned"
    /\ UNCHANGED <<expenses, disk, call, ioLog, fault, onlyAdds>>

-----------------------------------------------------------------------------
(* main() *)

\* the call is made: the manager runs next
Dispatch(c) ==
    /\ call' = c
    /\ pc' = "call"
    /\ UNCHANGED <<expenses, disk, out, ioLog, fault, prev, onlyAdds>>

Unhandled_Reprompt ==
    /\ call' = NoCall
    /\ out' = [msg |-> "traceback"]
    /\ pc' = "returned"
    /\ fault' = "input"
    /\ UNCHANGED <<expenses, disk, ioLog, prev, onlyAdds>>

\* int()/float() raised ValueError inside main(): nothing catches it, the
\* exception leaves the while loop and main(), and the interpreter exits.
Unhandled ==
    /\ call' = NoCall
    /\ out' = [msg |-> "traceback"]
    /\ pc' = "crashed"
    /\ fault' = "input"
    /\ UNCHANGED <<expenses, disk, ioLog, prev, onlyAdds>>

MainAdd ==
    /\ pc = "menu"
    /\ Len(expenses) < MaxLen
    /\ \E a \in AddInputs :
         IF Parses(a.amount)
         THEN Dispatch([op |-> "add", description |-> a.description,
                        amount |-> IntOf(a.amount), category |-> a.category,
                        date |-> a.date, now |-> a.now])
         ELSE Unhandled

MainList ==
    /\ pc = "menu"
    /\ Dispatch([op |-> "list"])

MainEdit ==
    /\ pc = "menu"
    /\ \E idText \in IdInputs, e \in EditInputs :
         IF Parses(idText) /\ (e.amount = Blank \/ Parses(e.amount))
         THEN Dispatch([op |-> "edit", expense_id |-> IntOf(idText),
                        description |-> IF e.description # "" THEN <<e.description>> ELSE <<>>,
                        amount |-> IF e.amount # Blank THEN <<IntOf(e.amount)>> ELSE <<>>,
                        category |-> IF e.category # Blank THEN <<e.category>> ELSE <<>>,
                        date |-> IF e.date # Blank THEN <<e.date>> ELSE <<>>])
         ELSE Unhandled

MainDelete ==
    /\ pc = "menu"
    /\ \E idText \in IdInputs :
         IF Parses(idText)
         THEN Dispatch([op |-> "delete", expense_id |-> IntOf(idText)])
         ELSE Unhandled

MainMonthly ==
    /\ pc = "menu"
    /\ \E monthText \in MonthInputs, yearText \in YearInputs :
         IF Parses(monthText) /\ Parses(yearText)
         THEN Dispatch([op |-> "monthly", month |-> IntOf(monthText),
                        year |-> IntOf(yearText)])
         ELSE Unhandled

MainCategory ==
    /\ pc = "menu"
    /\ \E category \in CategoryInputs :
         Dispatch([op |-> "category", category |-> category])

MainExit ==
    /\ pc = "menu"
    /\ pc' = "exited"
    /\ out' = [msg |-> "goodbye"]
    /\ UNCHANGED <<expenses, disk, call, ioLog, fault, prev, onlyAdds>>

MainInvalid ==
    /\ pc = "menu"
    /\ \E choice \in OtherChoices :
        /\ call' = [op |-> "invalid", choice |-> choice]
        /\ out' = [msg |-> "invalid_choice"]
    /\ pc' = "returned"
    /\ UNCHANGED <<expenses, disk, ioLog, fault, prev, onlyAdds>>

\* the manager returned: back to the top of "while True", the menu is printed
LoopTop ==
    /\ pc = "returned"
    /\ pc' = "menu"
    /\ call' = NoCall
    /\ out' = NoOut
    /\ ioLog' = <<>>
    /\ prev' = <<>>
    /\ UNCHANGED <<expenses, disk, fault, onlyAdds>>

Next ==
    \/ load_expenses
    \/ MainAdd \/ MainList \/ MainEdit \/ MainDelete
    \/ MainMonthly \/ MainCategory \/ MainExit \/ MainInvalid
    \/ add_expense \/ list_expenses \/ edit_expense \/ delete_expense
    \/ monthly_report \/ category_report
    \/ LoopTop

Spec == Init /\ [][Next]_vars

-----------------------------------------------------------------------------
(* Properties.  prev is the in-memory list as it was when the manager call  *)
(* that just returned began; ioLog lists the writes of expenses.json that   *)
(* call made, with their outcomes.                                          *)

Returned(op) == pc = "returned" /\ call.op = op

Ran(op) == pc = "call" /\ call.op = op /\ pc' = "returned"

\* the file holds the list (a missing file counts as the empty list, as Load reads it)
Mirrors(file, exps) == file = dumps(exps) \/ (file.kind = "absent" /\ exps = <<>>)

HasDuplicateIds(exps) ==
    \E i, j \in 1..Len(exps) : i # j /\ exps[i].id = exps[j].id

HasId(exps, expense_id) == \E i \in 1..Len(exps) : exps[i].id = expense_id

FirstIndexWithId(exps, expense_id) ==
    CHOOSE i \in 1..Len(exps) :
        /\ exps[i].id = expense_id
        /\ \A j \in 1..(i - 1) : exps[j].id # expense_id

HasPrefix(s, p) == Len(s) >= Len(p) /\ \A k \in 1..Len(p) : s[k] = p[k]

\* p reads: the decimal digits of year, a dash, two digits whose value is month
IsYearDashMM(p, month, year) ==
    LET n == Len(p) IN
    /\ n >= 4
    /\ Parses(SubSeq(p, 1, n - 3)) /\ IntOf(SubSeq(p, 1, n - 3)) = year
    /\ p[n - 2] = "-"
    /\ IsDigit(p[n - 1]) /\ IsDigit(p[n])
    /\ 10 * DigitVal(p[n - 1]) + DigitVal(p[n]) = month

RECURSIVE AmountOfFirst(_, _)
AmountOfFirst(exps, n) ==
    IF n = 0 THEN 0 ELSE AmountOfFirst(exps, n - 1) + exps[n].amount

\* C1: after add_expense, edit_expense or delete_expense returns, the content
\* of expenses.json equals the in-memory list.
C1_PersistedEqualsMemory ==
    (pc = "returned" /\ call.op \in {"add", "edit", "delete"}) => Mirrors(disk, expenses)

\* C2: add_expense appends one record at the end with id = (number of records
\* before the call) + 1 and leaves the earlier records as they were; while the
\* list started empty and only adds have run, the ids are 1..N in order.
C2_AddAssignsCountPlusOne ==
    /\ Returned("add") =>
          /\ Len(expenses) = Len(prev) + 1
          /\ SubSeq(expenses, 1, Len(prev)) = prev
          /\ expenses[Len(expenses)].id = Len(prev) + 1
    /\ onlyAdds => \A i \in 1..Len(expenses) : expenses[i].id = i

C2_Witness ==
    /\ Returned("add") /\ onlyAdds
    /\ Len(expenses) >= 2
    /\ expenses[Len(expenses)].id = Len(expenses)

\* C3: an add_expense on a list that already holds a record whose id is
\* (length + 1), which a delete of an earlier record leaves behind, yields a
\* list in which two records carry the same id: distinct ids are no invariant.
C3_AddAfterDeleteRepeatsId ==
    (Returned("add") /\ HasId(prev, Len(prev) + 1)) => HasDuplicateIds(expenses)

C3_Witness ==
    /\ Returned("add")
    /\ ~HasDuplicateIds(prev)
    /\ HasDuplicateIds(expenses)

\* C4: edit_expense changes no record's id or created_at, adds or removes no
\* record, and leaves every field whose argument is None as it was.
C4_EditKeepsIdCreatedAtAndAbsentFields ==
    Returned("edit") =>
        /\ Len(expenses) = Len(prev)
        /\ \A i \in 1..Len(prev) :
              /\ expenses[i].id = prev[i].id
              /\ expenses[i].created_at = prev[i].created_at
              /\ call.description = <<>> => expenses[i].description = prev[i].description
              /\ call.amount = <<>> => expenses[i].amount = prev[i].amount
              /\ call.category = <<>> => expenses[i].category = prev[i].category
              /\ call.date = <<>> => expenses[i].date = prev[i].date

C4_Witness ==
    /\ Returned("edit") /\ out.msg = "updated"
    /\ call.amount # <<>>
    /\ call.description = <<>> /\ call.category = <<>> /\ call.date = <<>>
    /\ \E i \in 1..Len(prev) : expenses[i].amount # prev[i].amount

\* C5: edit_expense with an id that no record carries changes neither the
\* in-memory list nor expenses.json, writes nothing, and prints "not found".
C5_EditNotFoundChangesNothing ==
    [][(Ran("edit") /\ ~HasId(expenses, call.expense_id)) =>
          /\ expenses' = expenses
          /\ disk' = disk
          /\ ioLog' = <<>>
          /\ out'.msg = "not_found"]_vars

C5_Witness ==
    /\ Returned("edit") /\ out.msg = "not_found"
    /\ expenses # <<>>
    /\ ~Mirrors(disk, expenses)

\* C6: delete_expense removes every record whose id equals the argument and
\* keeps the others, unchanged and in order; it writes expenses.json whether
\* or not a record matched, and a write that completes leaves the file equal
\* to the list.
C6_DeleteRemovesEveryMatch ==
    Returned("delete") =>
        LET Kept(e) == e.id # call.expense_id IN
        /\ expenses = SelectSeq(prev, Kept)
        /\ Len(ioLog) = 1
        /\ ioLog[1] = "ok" => disk = dumps(expenses)

C6_Witness ==
    /\ Returned("delete") /\ out.msg = "deleted"
    /\ \E i, j \in 1..Len(prev) :
          i # j /\ prev[i].id = call.expense_id /\ prev[j].id = call.expense_id
    /\ Len(expenses) = Len(prev) - 2
    /\ expenses # <<>>

\* C7: no failure of a Manager operation (load on construction, add, edit,
\* delete, the reports) ends the process: control always returns to main().
C7_NoManagerFailureEscapes ==
    pc = "crashed" =>
        call.op \notin {"load", "add", "list", "edit", "delete", "monthly", "category"}

\* C8 as stated: after a malformed numeric input the process is still running
\* and the menu is served again.
C8_MalformedInputKeepsLooping ==
    fault = "input" => pc \in {"returned", "menu", "call"}

\* C8 amended: a malformed numeric input is met at the menu, leaves the
\* in-memory list and expenses.json as they were and calls no Manager
\* operation, and the ValueError ends the process; nothing runs after the
\* process has ended.
C8_MalformedInputLeavesStoreAndEnds ==
    [][/\ pc \notin {"crashed", "exited"}
       /\ (fault' = "input" /\ fault = "none") =>
             /\ pc = "menu" /\ pc' = "crashed"
             /\ expenses' = expenses /\ disk' = disk /\ ioLog' = ioLog
             /\ call' = NoCall]_vars

C8_Witness ==
    /\ pc = "crashed" /\ fault = "input"
    /\ expenses # <<>>

\* C9: monthly_report(month, year) lists exactly the records whose date starts
\* with year-MM, in list order, with a total equal to the sum of their
\* amounts; with no such record it prints the no-results message; it changes
\* neither the list nor the file.
C9_MonthlyReportSelectsPrefix ==
    [][Ran("monthly") =>
          LET p == out'.month_str
              InMonth(e) == HasPrefix(e.date, p)
              chosen == SelectSeq(expenses, InMonth)
          IN /\ IsYearDashMM(p, call.month, call.year)
             /\ expenses' = expenses /\ disk' = disk /\ ioLog' = <<>>
             /\ IF chosen = <<>>
                THEN out'.msg = "monthly_none"
                ELSE /\ out'.msg = "monthly"
                     /\ out'.items = Lines(chosen)
                     /\ out'.total = AmountOfFirst(chosen, Len(chosen))]_vars

C9_Witness ==
    /\ Returned("monthly") /\ out.msg = "monthly"
    /\ Len(expenses) = 3
    /\ Len(out.items) = 2
    /\ out.total = out.items[1].amount + out.items[2].amount
    /\ out.items[1].amount # out.items[2].amount

\* C10: when edit_expense finds a match, every field whose argument is
\* supplied holds the supplied value afterwards on the first record with that
\* id, and every other record is unchanged.
C10_EditStoresEverySuppliedValue ==
    (Returned("edit") /\ HasId(prev, call.expense_id)) =>
        LET i == FirstIndexWithId(prev, call.expense_id) IN
        /\ Len(expenses) = Len(prev)
        /\ \A j \in 1..Len(prev) : j # i => expenses[j] = prev[j]
        /\ call.description # <<>> => expenses[i].description = call.description[1]
        /\ call.amount # <<>> => expenses[i].amount = call.amount[1]
        /\ call.category # <<>> => expenses[i].category = call.category[1]
        /\ call.date # <<>> => expenses[i].date = call.date[1]

====
